---- MODULE Spec2Model ----
(***************************************************************************)
(* minigrep (src/main.rs): argument parsing into MinigrepOptions, pattern  *)
(* compilation, and the per-line match / output pipeline of run().         *)
(*                                                                         *)
(* A string is a sequence of one-character strings.  Standard output is    *)
(* the character stream written by println!.                               *)
(***************************************************************************)
EXTENDS Integers, Sequences, FiniteSets, TLC

VARIABLES args, file, pc, options, re, lineIdx, stdout, stderr, status, compiles

vars == <<args, file, pc, options, re, lineIdx, stdout, stderr, status, compiles>>

(***************************************************************************)
(* Bounds and input alphabets                                              *)
(***************************************************************************)
MaxUserArgs == 4
MaxLines == 2

DashV == <<"-", "v">>
DashG == <<"-", "g">>
NL == <<"\n">>
Comma == <<",">>

\* argv[0]
ProgNames == { <<"m", "g">>, DashV }

\* tokens a user may type after the program name: flags, a pattern without
\* groups, a pattern with one group, a pattern with three groups of which the
\* second is optional, and a pattern with an unclosed group
Tokens == { DashV, DashG,
            <<"a">>,
            <<"(", "b", ")">>,
            <<"(", "a", ")", "(", "b", ")", "?", "(", "c", ")">>,
            <<"(", "a">> }

\* decoded text of input lines
LineTexts == { <<"a", "b", "c">>, <<"a", "c">>, <<"b">>, <<>> }

\* every argument list: the program name and up to MaxUserArgs tokens
ArgLists ==
    { <<p>> \o u : p \in ProgNames,
                   u \in UNION { [1..n -> Tokens] : n \in 0..MaxUserArgs } }

\* the argument lists of the usage line "prog [options] query file"
UsageArgLists ==
    { <<p>> \o o \o <<q, <<"f">> >> :
        p \in ProgNames,
        o \in UNION { [1..n -> {DashV, DashG}] : n \in 0..(MaxUserArgs - 2) },
        q \in Tokens }

\* an item of reader.lines(): Ok(text) or Err (bytes that are not valid text)
LineItems == { [ok |-> TRUE, text |-> t] : t \in LineTexts }
               \cup { [ok |-> FALSE, text |-> <<>>] }

\* what File::open finds at the path: nothing, or a file with its lines
Files == { [exists |-> FALSE, lines |-> <<>>] }
         \cup { [exists |-> TRUE, lines |-> ls] :
                  ls \in UNION { [1..n -> LineItems] : n \in 0..MaxLines } }

\* the files of at most one line
ShortFiles == { f \in Files : Len(f.lines) <= 1 }

\* the runs explored: every argument list on the short files, and every
\* usage argument list on every file
Inputs == (ArgLists \X ShortFiles) \cup (UsageArgLists \X Files)

(***************************************************************************)
(* struct MinigrepOptions and parse_args                                   *)
(***************************************************************************)
MinigrepOptions(filename, query, invert_match, dump_capture_groups) ==
    [filename |-> filename, query |-> query,
     invert_match |-> invert_match,
     dump_capture_groups |-> dump_capture_groups]

NoOptions == MinigrepOptions(<<>>, <<>>, FALSE, FALSE)

ParseErr == [tag |-> "Err", opt |-> NoOptions]
ParseOk(opt) == [tag |-> "Ok", opt |-> opt]

\* the for loop of parse_args over arg_index in 1..(arg_count - 2), written
\* with 1-based positions: position p holds args[p - 1] of the source
RECURSIVE scan_flags(_, _, _, _)
scan_flags(a, p, invert_match, dump_capture_groups) ==
    IF p > Len(a) - 2
    THEN [invert_match |-> invert_match,
          dump_capture_groups |-> dump_capture_groups]
    ELSE scan_flags(a, p + 1,
                    IF a[p] = DashV THEN TRUE ELSE invert_match,
                    IF a[p] = DashG THEN TRUE ELSE dump_capture_groups)

\* mutant: the argument-count test is off by one
parse_args_short(a) ==
    IF Len(a) < 2
    THEN ParseErr
    ELSE LET flags == scan_flags(a, 2, FALSE, FALSE)
         IN  ParseOk(MinigrepOptions(a[Len(a)], a[Len(a) - 1],
                                     flags.invert_match,
                                     flags.dump_capture_groups))

\* mutant: the flag scan runs over every token after the program name
RECURSIVE scan_all(_, _, _, _)
scan_all(a, p, invert_match, dump_capture_groups) ==
    IF p > Len(a)
    THEN [invert_match |-> invert_match,
          dump_capture_groups |-> dump_capture_groups]
    ELSE scan_all(a, p + 1,
                  IF a[p] = DashV THEN TRUE ELSE invert_match,
                  IF a[p] = DashG THEN TRUE ELSE dump_capture_groups)

parse_args_scan_all(a) ==
    IF Len(a) < 3
    THEN ParseErr
    ELSE LET flags == scan_all(a, 2, FALSE, FALSE)
         IN  ParseOk(MinigrepOptions(a[Len(a)], a[Len(a) - 1],
                                     flags.invert_match,
                                     flags.dump_capture_groups))

\* mutant: the flag scan stops one token early
parse_args_scan_short(a) ==
    IF Len(a) < 3
    THEN ParseErr
    ELSE LET flags == scan_flags(SubSeq(a, 1, Len(a) - 1), 2, FALSE, FALSE)
         IN  ParseOk(MinigrepOptions(a[Len(a)], a[Len(a) - 1],
                                     flags.invert_match,
                                     flags.dump_capture_groups))

parse_args(a) ==
    IF Len(a) < 3
    THEN ParseErr
    ELSE LET flags == scan_flags(a, 2, FALSE, FALSE)
         IN  ParseOk(MinigrepOptions(a[Len(a)], a[Len(a) - 1],
                                     flags.invert_match,
                                     flags.dump_capture_groups))

(***************************************************************************)
(* The regex crate, for patterns over literal characters, capture groups   *)
(* "(" ... ")" and the repetition operator "?" ("??" is the lazy form).    *)
(* The characters of Tokens other than ( ) ? are literals of the syntax.   *)
(***************************************************************************)
RegexErr == [ok |-> FALSE, ast |-> [t |-> "cat", xs |-> <<>>], ngroups |-> 0]

ConcatErr == [ok |-> FALSE, xs |-> <<>>, pos |-> 0, g |-> 0]

\* parse a concatenation starting at position i with g groups opened so far;
\* stops at the end of the pattern or at a ")" (returned in pos)
RECURSIVE parse_concat(_, _, _, _)
parse_concat(s, i, g, acc) ==
    IF i > Len(s) \/ s[i] = ")"
    THEN [ok |-> TRUE, xs |-> acc, pos |-> i, g |-> g]
    ELSE IF s[i] = "("
    THEN IF i + 1 <= Len(s) /\ s[i + 1] = "?"
         THEN ConcatErr  \* "(?" opens a flag group; no token holds a flag
         ELSE LET inner == parse_concat(s, i + 1, g + 1, <<>>)
              IN  IF ~inner.ok \/ inner.pos > Len(s)
                  THEN ConcatErr  \* unclosed group
                  ELSE parse_concat(s, inner.pos + 1, inner.g,
                         Append(acc, [t |-> "grp", i |-> g + 1,
                                      x |-> [t |-> "cat", xs |-> inner.xs]]))
    ELSE IF s[i] = "?"
    THEN IF acc = <<>>
         THEN ConcatErr  \* repetition operator missing expression
         ELSE LET lazy == i + 1 <= Len(s) /\ s[i + 1] = "?"
              IN  parse_concat(s, IF lazy THEN i + 2 ELSE i + 1, g,
                    Append(SubSeq(acc, 1, Len(acc) - 1),
                           [t |-> "opt", greedy |-> ~lazy,
                            x |-> acc[Len(acc)]]))
    ELSE parse_concat(s, i + 1, g, Append(acc, [t |-> "lit", c |-> s[i]]))

\* Regex::new
Regex_new(query) ==
    LET r == parse_concat(query, 1, 0, <<>>)
    IN  IF ~r.ok \/ r.pos <= Len(query)  \* error, or ")" without "("
        THEN RegexErr
        ELSE [ok |-> TRUE, ast |-> [t |-> "cat", xs |-> r.xs],
              ngroups |-> r.g]

NoMatch == [some |-> FALSE, text |-> <<>>]
SomeMatch(text) == [some |-> TRUE, text |-> text]

\* all ways node n matches line at position pos, in the order of preference
\* of the engine (leftmost-first); each gives the end position and the groups
RECURSIVE exec(_, _, _, _), exec_concat(_, _, _, _, _), exec_each(_, _, _, _, _)
exec(n, line, pos, caps) ==
    CASE n.t = "lit" ->
           IF pos <= Len(line) /\ line[pos] = n.c
           THEN << [pos |-> pos + 1, caps |-> caps] >>
           ELSE << >>
      [] n.t = "cat" -> exec_concat(n.xs, 1, line, pos, caps)
      [] n.t = "grp" ->
           LET rs == exec(n.x, line, pos, caps)
           IN  [j \in 1..Len(rs) |->
                  [pos |-> rs[j].pos,
                   caps |-> [rs[j].caps EXCEPT
                     ![n.i] = SomeMatch(SubSeq(line, pos, rs[j].pos - 1))]]]
      [] n.t = "opt" ->
           IF n.greedy
           THEN exec(n.x, line, pos, caps) \o << [pos |-> pos, caps |-> caps] >>
           ELSE << [pos |-> pos, caps |-> caps] >> \o exec(n.x, line, pos, caps)

exec_concat(xs, k, line, pos, caps) ==
    IF k > Len(xs)
    THEN << [pos |-> pos, caps |-> caps] >>
    ELSE exec_each(exec(xs[k], line, pos, caps), xs, k + 1, line, 1)

exec_each(rs, xs, k, line, j) ==
    IF j > Len(rs)
    THEN << >>
    ELSE exec_concat(xs, k, line, rs[j].pos, rs[j].caps)
           \o exec_each(rs, xs, k, line, j + 1)

exec_at(r, line, start) ==
    exec(r.ast, line, start, [g \in 1..r.ngroups |-> NoMatch])

\* Regex::is_match: the pattern matches somewhere in the line
Regex_is_match(r, line) ==
    \E start \in 1..(Len(line) + 1) : Len(exec_at(r, line, start)) > 0

NoCaptures == [some |-> FALSE, caps |-> <<>>]

\* Regex::captures: the leftmost match; slot 0 of the source is caps[1]
RECURSIVE captures_from(_, _, _)
captures_from(r, line, start) ==
    IF start > Len(line) + 1
    THEN NoCaptures
    ELSE LET rs == exec_at(r, line, start)
         IN  IF Len(rs) > 0
             THEN [some |-> TRUE,
                   caps |-> << SomeMatch(SubSeq(line, start, rs[1].pos - 1)) >>
                              \o rs[1].caps]
             ELSE captures_from(r, line, start + 1)

Regex_captures(r, line) == captures_from(r, line, 1)

(***************************************************************************)
(* match_line, output_line, normal_output, write_capture_groups and the    *)
(* Display of CaptureGroupVec.  An output operator returns whether it      *)
(* panicked and the characters it wrote to standard output.                *)
(***************************************************************************)
Wrote(text) == [panic |-> FALSE, out |-> text]
Panicked == [panic |-> TRUE, out |-> <<>>]

match_line(opt, r, line) == Regex_is_match(r, line)

\* the for loop of fmt over self.0[1..len - 1]: positions 2..Len(v) - 1
RECURSIVE fmt_loop(_, _, _)
fmt_loop(v, p, comma_separated) ==
    IF p > Len(v) - 1
    THEN comma_separated
    ELSE fmt_loop(v, p + 1, comma_separated \o v[p] \o Comma)

\* mutant: the join starts at the whole-match slot
CaptureGroupVec_fmt_from0(v) ==
    IF Len(v) < 2
    THEN Panicked
    ELSE Wrote(fmt_loop(v, 1, <<>>) \o v[Len(v)])

\* <CaptureGroupVec as Display>::fmt; the range 1..len - 1 of a vector of
\* fewer than two elements is not a valid slice range and panics
CaptureGroupVec_fmt(v) ==
    IF Len(v) < 2
    THEN Panicked
    ELSE Wrote(fmt_loop(v, 2, <<>>) \o v[Len(v)])

\* mutant: a line without captures is written as an empty line
write_capture_groups_blank(opt, r, line) ==
    LET captures == Regex_captures(r, line)
    IN  IF ~captures.some
        THEN Wrote(NL)
        ELSE LET matches == [k \in 1..Len(captures.caps) |->
                               IF captures.caps[k].some
                               THEN captures.caps[k].text ELSE <<>>]
                 shown == CaptureGroupVec_fmt(matches)
             IN  IF shown.panic THEN Panicked ELSE Wrote(shown.out \o NL)

write_capture_groups(opt, r, line) ==
    LET captures == Regex_captures(r, line)
    IN  IF ~captures.some
        THEN Wrote(<<>>)
        ELSE LET matches == [k \in 1..Len(captures.caps) |->
                               IF captures.caps[k].some
                               THEN captures.caps[k].text ELSE <<>>]
                 shown == CaptureGroupVec_fmt(matches)
             IN  IF shown.panic THEN Panicked ELSE Wrote(shown.out \o NL)

normal_output(opt, line) == Wrote(line \o NL)

\* mutant: the invert flag is not applied
output_line_no_invert(opt, r, line, is_match) ==
    IF ~is_match
    THEN Wrote(<<>>)
    ELSE IF opt.dump_capture_groups
         THEN write_capture_groups(opt, r, line)
         ELSE normal_output(opt, line)

output_line(opt, r, line, is_match) ==
    LET should_write == IF opt.invert_match THEN ~is_match ELSE is_match
    IN  IF ~should_write
        THEN Wrote(<<>>)
        ELSE IF opt.dump_capture_groups
             THEN write_capture_groups(opt, r, line)
             ELSE normal_output(opt, line)

(***************************************************************************)
(* main and run as a state machine.  pc is the position in main/run;       *)
(* status is the exit status of the process, -1 while it runs; lineIdx     *)
(* counts the lines for which the body of the for loop has completed.      *)
(***************************************************************************)
Init ==
    /\ \E input \in Inputs : args = input[1] /\ file = input[2]
    /\ pc = "main"
    /\ options = [tag |-> "None", opt |-> NoOptions]
    /\ re = RegexErr
    /\ lineIdx = 0
    /\ stdout = <<>>
    /\ stderr = <<>>
    /\ status = -1
    /\ compiles = 0

\* std::process::exit(1) after a diagnostic on standard error
Exit1(diagnostic) ==
    /\ pc' = "exited"
    /\ status' = 1
    /\ stderr' = Append(stderr, diagnostic)

\* main: parse_args, then print_usage and exit(1), or run(&options)
Main ==
    /\ pc = "main"
    /\ LET parsed == parse_args(args)
       IN  /\ options' = parsed
           /\ IF parsed.tag = "Err"
              THEN Exit1("usage")
              ELSE /\ pc' = "open"
                   /\ UNCHANGED <<status, stderr>>
    /\ UNCHANGED <<args, file, re, lineIdx, stdout, compiles>>

\* run: File::open(&path)
OpenFile ==
    /\ pc = "open"
    /\ IF ~file.exists
       THEN Exit1("couldn't open")
       ELSE /\ pc' = "compile"
            /\ UNCHANGED <<status, stderr>>
    /\ UNCHANGED <<args, file, options, re, lineIdx, stdout, compiles>>

\* run: Regex::new(&options.query)
CompilePattern ==
    /\ pc = "compile"
    /\ compiles' = compiles + 1
    /\ LET compiled == Regex_new(options.opt.query)
       IN  IF ~compiled.ok
           THEN /\ Exit1("error parsing pattern")
                /\ UNCHANGED re
           ELSE /\ re' = compiled
                /\ pc' = "lines"
                /\ UNCHANGED <<status, stderr>>
    /\ UNCHANGED <<args, file, options, lineIdx, stdout>>

\* the body of the for loop once the line is decoded; a panic unwinds out of
\* main and the process exits with the status of a panic
LineBody(line) ==
    LET is_match == match_line(options.opt, re, line)
        written == output_line(options.opt, re, line, is_match)
    IN  IF written.panic
        THEN /\ pc' = "exited"
             /\ status' = 101
             /\ stderr' = Append(stderr, "panicked")
             /\ UNCHANGED <<lineIdx, stdout>>
        ELSE /\ stdout' = stdout \o written.out
             /\ lineIdx' = lineIdx + 1
             /\ UNCHANGED <<pc, status, stderr>>

\* mutant: a line that cannot be decoded is skipped
ProcessLine_skip ==
    /\ pc = "lines"
    /\ lineIdx < Len(file.lines)
    /\ LET item == file.lines[lineIdx + 1]
       IN  IF ~item.ok
           THEN /\ lineIdx' = lineIdx + 1
                /\ UNCHANGED <<pc, status, stderr, stdout>>
           ELSE LineBody(item.text)
    /\ UNCHANGED <<args, file, options, re, compiles>>

\* mutant: the pattern is compiled again for every line
ProcessLine_recompile ==
    /\ pc = "lines"
    /\ lineIdx < Len(file.lines)
    /\ compiles' = compiles + 1
    /\ LET item == file.lines[lineIdx + 1]
       IN  IF ~item.ok
           THEN /\ Exit1("error reading file")
                /\ UNCHANGED <<lineIdx, stdout>>
           ELSE LineBody(item.text)
    /\ UNCHANGED <<args, file, options, re>>

\* run: one iteration of the for loop over reader.lines()
ProcessLine ==
    /\ pc = "lines"
    /\ lineIdx < Len(file.lines)
    /\ LET item == file.lines[lineIdx + 1]
       IN  IF ~item.ok
           THEN /\ Exit1("error reading file")
                /\ UNCHANGED <<lineIdx, stdout>>
           ELSE LineBody(item.text)
    /\ UNCHANGED <<args, file, options, re, compiles>>

\* run and main return once reader.lines() is exhausted
Finish ==
    /\ pc = "lines"
    /\ lineIdx = Len(file.lines)
    /\ pc' = "exited"
    /\ status' = 0
    /\ UNCHANGED <<args, file, options, re, lineIdx, stdout, stderr, compiles>>

Next == Main \/ OpenFile \/ CompilePattern \/ ProcessLine \/ Finish

Spec == Init /\ [][Next]_vars

(***************************************************************************)
(* Vocabulary of the properties                                            *)
(***************************************************************************)
Opt == options.opt
Built == options.tag = "Ok"
Completed == pc = "exited" /\ status = 0
NumLines == Len(file.lines)

\* the decoded texts of the first k input lines
Texts(k) == [j \in 1..k |-> file.lines[j].text]

\* positions before the last two, after the program name
FlagPositions == 2..(Len(args) - 2)

\* the line is one to emit: its match verdict differs from invert_match
ToEmit(t) == Regex_is_match(re, t) # Opt.invert_match

RECURSIVE Concat(_)
Concat(ss) == IF ss = <<>> THEN <<>> ELSE Head(ss) \o Concat(Tail(ss))

\* the texts ss joined by sep, no separator after the last
RECURSIVE Join(_, _)
Join(ss, sep) ==
    IF ss = <<>> THEN <<>>
    ELSE IF Len(ss) = 1 THEN ss[1]
    ELSE Head(ss) \o sep \o Join(Tail(ss), sep)

RECURSIVE Count(_, _)
Count(text, c) ==
    IF text = <<>> THEN 0
    ELSE (IF Head(text) = c THEN 1 ELSE 0) + Count(Tail(text), c)

\* each text followed by a line terminator
AsLines(ss) == Concat([j \in 1..Len(ss) |-> ss[j] \o NL])

\* the capture set of a line: the text of every slot, empty when the group
\* took no part in the match
SlotTexts(t) ==
    LET c == Regex_captures(re, t).caps
    IN  [k \in 1..Len(c) |-> IF c[k].some THEN c[k].text ELSE <<>>]

\* the groups of a line, slot 0 left out, joined by commas
GroupLine(t) == Join(Tail(SlotTexts(t)), Comma)

\* what one input line contributes to standard output
ExpectedLine(t) ==
    IF ~ToEmit(t) THEN <<>>
    ELSE IF ~Opt.dump_capture_groups THEN t \o NL
    ELSE IF ~Regex_captures(re, t).some THEN <<>>
    ELSE GroupLine(t) \o NL

ExpectedOutput(k) == Concat([j \in 1..k |-> ExpectedLine(file.lines[j].text)])

IsToEmit(t) == ToEmit(t)
IsMatching(t) == Regex_is_match(re, t)

(***************************************************************************)
(* Properties                                                              *)
(***************************************************************************)

\* C1: without dump_capture_groups, the standard output of a completed run
\* is exactly the input lines whose match verdict differs from invert_match,
\* verbatim, each followed by a line terminator, in input order.
C1_NormalOutputIsFilteredInput ==
    (Completed /\ ~Opt.dump_capture_groups)
        => stdout = AsLines(SelectSeq(Texts(NumLines), IsToEmit))

C1_Witness ==
    /\ Completed /\ ~Opt.dump_capture_groups
    /\ NumLines = 2
    /\ \E j \in 1..2 : ToEmit(file.lines[j].text)
    /\ \E j \in 1..2 : ~ToEmit(file.lines[j].text)
    /\ stdout # <<>>

\* C2 as stated: for every flag combination a completed run writes exactly
\* one line per input line whose match verdict differs from invert_match.
C2_OneLinePerSelectedLine ==
    Completed
        => Count(stdout, "\n") = Len(SelectSeq(Texts(NumLines), IsToEmit))

\* C2 amended: a completed run writes, in input order, one line per matching
\* input line when invert_match is false, one line per non-matching input
\* line when invert_match is true and dump_capture_groups is false, and
\* nothing when both flags are true.
C2_OneLinePerSelectedLineUnlessBothFlags ==
    Completed
        => /\ stdout = ExpectedOutput(NumLines)
           /\ Count(stdout, "\n") =
                IF Opt.invert_match /\ Opt.dump_capture_groups
                THEN 0
                ELSE Len(SelectSeq(Texts(NumLines), IsToEmit))

C2_Witness ==
    /\ Completed
    /\ Opt.invert_match /\ Opt.dump_capture_groups
    /\ \E j \in 1..NumLines : ToEmit(file.lines[j].text)
    /\ stdout = <<>>

\* C3: with dump_capture_groups and a pattern without groups, formatting the
\* capture set of a matching line does not fail; the run writes the text of
\* slot 0 for every matching line and goes on.
C3_NoGroupDumpPrintsWholeMatch ==
    (Built /\ re.ok /\ re.ngroups = 0
       /\ Opt.dump_capture_groups /\ ~Opt.invert_match)
        => /\ status # 101
           /\ stdout = AsLines([j \in 1..Len(SelectSeq(Texts(lineIdx), IsMatching))
                                 |-> SlotTexts(SelectSeq(Texts(lineIdx), IsMatching)[j])[1]])

\* C4 as stated: parse_args fails for every argument list with fewer than 3
\* entries after the program name.
C4_FailsBelowThreeAfterProgram ==
    (pc # "main" /\ Len(args) - 1 < 3) => options.tag = "Err"

\* C4 amended: parse_args fails for every argument list with fewer than 3
\* entries in all, the program name at position 0 included (fewer than 2
\* entries after it).
C4_FailsBelowThreeInAll ==
    (pc # "main" /\ Len(args) < 3) => options.tag = "Err"

C4_Witness ==
    /\ pc # "main" /\ Len(args) = 2 /\ options.tag = "Err"

\* C5: when parse_args succeeds, filename is the last token and query the
\* second-to-last whatever their text; "-v" or "-g" in these two positions
\* sets no flag.
C5_LastTwoArePositional ==
    Built
        => /\ Opt.filename = args[Len(args)]
           /\ Opt.query = args[Len(args) - 1]
           /\ Opt.invert_match => \E p \in FlagPositions : args[p] = DashV
           /\ Opt.dump_capture_groups => \E p \in FlagPositions : args[p] = DashG

C5_Witness ==
    /\ Built
    /\ args[Len(args)] = DashV /\ args[Len(args) - 1] = DashG
    /\ Opt.filename = DashV /\ Opt.query = DashG
    /\ ~Opt.invert_match /\ ~Opt.dump_capture_groups

\* C6: when parse_args succeeds, invert_match holds exactly when some token
\* after the program name and before the last two is "-v", and
\* dump_capture_groups exactly when some such token is "-g" (so order,
\* repeats and other tokens do not matter); parse_args succeeds on every
\* list of at least 3 entries, whatever the tokens.
C6_FlagsAreMembership ==
    /\ Built
         => /\ Opt.invert_match <=> \E p \in FlagPositions : args[p] = DashV
            /\ Opt.dump_capture_groups <=> \E p \in FlagPositions : args[p] = DashG
    /\ (pc # "main" /\ Len(args) >= 3) => Built

C6_Witness ==
    /\ Built /\ Len(args) = 5
    /\ args[2] \notin {DashV, DashG}
    /\ args[3] = DashG /\ args[4] = DashG
    /\ Opt.dump_capture_groups /\ ~Opt.invert_match

\* C7: with dump_capture_groups, a matching line whose capture set has slots
\* 0..n, n >= 1, is written as slots 1..n joined by commas, slot 0 left out,
\* an absent group as the empty string; the line holds n - 1 commas (the
\* input alphabet has no comma).
C7_GroupsJoinedByCommas ==
    (Built /\ re.ok /\ re.ngroups >= 1
       /\ Opt.dump_capture_groups /\ ~Opt.invert_match)
        => LET shown == SelectSeq(Texts(lineIdx), IsMatching)
           IN  /\ stdout = AsLines([j \in 1..Len(shown) |-> GroupLine(shown[j])])
               /\ \A j \in 1..Len(shown) : Len(SlotTexts(shown[j])) = re.ngroups + 1
               /\ Count(stdout, ",") = (re.ngroups - 1) * Len(shown)

C7_Witness ==
    /\ Built /\ re.ok /\ re.ngroups = 3
    /\ Opt.dump_capture_groups /\ ~Opt.invert_match
    /\ lineIdx = 1
    /\ Regex_captures(re, file.lines[1].text).some
    /\ ~Regex_captures(re, file.lines[1].text).caps[3].some
    /\ stdout = <<"a", ",", ",", "c", "\n">>

\* C8: the run exits with status 1 on too few arguments, a file that cannot
\* be opened, a pattern that does not compile or a line that cannot be
\* decoded; every other run consumes all lines and exits with status 0.
C8_ExitStatus ==
    pc = "exited"
        => IF \/ Len(args) < 3
              \/ ~file.exists
              \/ ~Regex_new(args[Len(args) - 1]).ok
              \/ \E k \in 1..NumLines : ~file.lines[k].ok
           THEN status = 1
           ELSE status = 0 /\ lineIdx = NumLines

\* C9: the pattern is compiled once, after the options are built and before
\* any line is matched or written; a run whose query does not compile writes
\* nothing and exits with status 1.
C9_CompiledOnceBeforeLines ==
    /\ compiles <= 1
    /\ compiles = 1 => Built
    /\ (pc = "lines" \/ lineIdx > 0 \/ stdout # <<>> \/ Completed)
         => compiles = 1 /\ re = Regex_new(Opt.query) /\ re.ok
    /\ (Built /\ ~Regex_new(Opt.query).ok)
         => /\ stdout = <<>> /\ lineIdx = 0 /\ pc # "lines"
            /\ pc = "exited" => status = 1

C9_Witness ==
    /\ pc = "exited" /\ status = 1 /\ compiles = 1
    /\ Built /\ ~Regex_new(Opt.query).ok
    /\ file.exists /\ NumLines = 2 /\ file.lines[1].ok
    /\ stdout = <<>>

\* C10: a line that cannot be decoded halts the run there with status 1: no
\* line at or after it is matched or written, and standard output holds
\* exactly the output of the lines before it.
C10_DecodeErrorHalts ==
    /\ \A k \in 1..NumLines : ~file.lines[k].ok => lineIdx < k
    /\ (pc = "exited" /\ re.ok /\ lineIdx < NumLines /\ ~file.lines[lineIdx + 1].ok)
         => /\ status = 1
            /\ stderr = <<"error reading file">>
            /\ stdout = ExpectedOutput(lineIdx)
    /\ (pc = "exited" /\ stderr = <<"error reading file">>)
         => lineIdx < NumLines /\ ~file.lines[lineIdx + 1].ok

C10_Witness ==
    /\ pc = "exited" /\ status = 1
    /\ stderr = <<"error reading file">>
    /\ lineIdx = 1 /\ NumLines = 2
    /\ stdout # <<>>

====
